---- MODULE Spec2Model ----
(***************************************************************************)
(* asyncio_redis.connection.Connection: the wrapper that establishes the   *)
(* transport of a RedisProtocol, re-establishes it with back-off after a   *)
(* loss, and proxies the protocol's commands.                               *)
(*                                                                         *)
(* Time is kept in fixed point: one unit is 1/Scale of a second.  Every    *)
(* value the retry interval takes (.5 * 1.5^k for k <= 11, and 60) is an   *)
(* exact multiple of the unit and an exact IEEE double, so the integer     *)
(* arithmetic below is the float arithmetic of the source.                 *)
(***************************************************************************)
EXTENDS Integers, Sequences, FiniteSets, TLC

VARIABLES
    auto_reconnect,    \* create's auto_reconnect argument (closed over by connection_lost)
    unixsocket,        \* connection.unixsocket: None, or a socket path
    retry_interval,    \* connection._retry_interval
    transport,         \* connection.protocol.transport: None, or the bound transport
    live,              \* the transports that are open (established and not yet lost)
    established,       \* how many transports were established so far; the n-th is n
    server,            \* the environment: what a connection attempt meets now
    loops,             \* the running _reconnect() coroutines, per task
    createPc,          \* where the create() coroutine is
    losses,            \* how many transport losses the protocol has reported
    ret,               \* what the caller's last attribute access or call gave
    protocol_calls,    \* commands the protocol handle has received
    transport_writes,  \* commands the protocol handle has written to a transport
    replay             \* the comparison of two create() runs (ReplaySpec only)

vars == <<auto_reconnect, unixsocket, retry_interval, transport, live, established,
          server, loops, createPc, losses, ret, protocol_calls, transport_writes,
          replay>>

---------------------------------------------------------------------------
(* Bounds of the model. *)
MaxLosses == 2
MaxTasks == 2
MaxWaited == 3
MaxCalls == 1

(* Fixed point. *)
Scale == 2 ^ 13
None == 0

Tasks == 0 .. MaxTasks          \* task 0 runs create(); the others are asyncio.async tasks
Background == 1 .. MaxTasks
Args == {<<"key">>, <<"key", "value">>}

Min(a, b) == IF a <= b THEN a ELSE b

---------------------------------------------------------------------------
(* The back-off policy. *)

InitialInterval == Scale \div 2

MaxInterval == 60 * Scale

get_retry_interval(i) == i

reset_retry_interval_forgotten == retry_interval

reset_retry_interval == InitialInterval

increase_retry_interval_unclamped(i) == (3 * i) \div 2

increase_retry_interval_doubling(i) == Min(MaxInterval, 2 * i)

increase_retry_interval(i) == Min(MaxInterval, (3 * i) \div 2)

---------------------------------------------------------------------------
(* The protocol collaborator (asyncio_redis.protocol). *)

all_commands == {"get", "set"}

OtherNames == {"frobnicate"}

Names == all_commands \cup OtherNames

\* RedisProtocol.connection_made: the transport is bound to the protocol.
connection_made(tr) == tr

\* A command of the protocol: written to the bound transport, or refused when
\* no transport is bound.
ProtocolCommand(name, args, tr) ==
    IF tr = None
    THEN [kind |-> "NotConnectedError", name |-> name, args |-> args, via |-> None]
    ELSE [kind |-> "reply", name |-> name, args |-> args, via |-> tr]

---------------------------------------------------------------------------
(* Connection.__getattr__ *)

AttributeError == [kind |-> "AttributeError"]

BoundMethod(name) == [kind |-> "method", of |-> "protocol", name |-> name]

getattr_proxy_everything(name) == BoundMethod(name)

getattr_wrong_command(name) ==
    IF name \notin all_commands
    THEN AttributeError
    ELSE BoundMethod(CHOOSE n \in all_commands : n # name)

getattr_refuses_when_disconnected(name) ==
    IF name \notin all_commands \/ transport = None
    THEN AttributeError
    ELSE BoundMethod(name)

getattr(name) ==
    IF name \notin all_commands
    THEN AttributeError
    ELSE BoundMethod(name)

---------------------------------------------------------------------------
(* The reconnect loops. *)

Idle == [pc |-> "idle", interval |-> 0, waited |-> <<>>]

Fresh == [pc |-> "start", interval |-> 0, waited |-> <<>>]

\* The coroutine is over, by return or by an exception: its local variable
\* interval is gone (waited, the record of its sleeps, is kept).
Over(l, how) == [l EXCEPT !.pc = how, !.interval = 0]

Inactive == {"idle", "done", "raised"}

Active(t) == loops[t].pc \notin Inactive

FreeSlots(ls) == {t \in Background : ls[t].pc \in Inactive}

LowestFree(ls) == CHOOSE t \in FreeSlots(ls) : \A u \in FreeSlots(ls) : t <= u

async_reconnect_inline(ls) ==
    [ls EXCEPT ![LowestFree(ls)] = [Fresh EXCEPT !.pc = "connecting"]]

\* asyncio.async(connection._reconnect(), loop=connection._loop)
async_reconnect(ls) == [ls EXCEPT ![LowestFree(ls)] = Fresh]

connection_lost_ignoring_flag(ls) == async_reconnect(ls)

connection_lost_inverted(ls) == IF auto_reconnect THEN ls ELSE async_reconnect(ls)

connection_lost_twice(ls) ==
    IF auto_reconnect
    THEN LET one == async_reconnect(ls)
         IN  IF FreeSlots(one) = {} THEN one ELSE async_reconnect(one)
    ELSE ls

\* The closure handed to RedisProtocol as connection_lost_callback.
connection_lost(ls) == IF auto_reconnect THEN async_reconnect(ls) ELSE ls

create_returns_at_once(pc) == IF pc = "raised" THEN "raised" ELSE "returned"

\* create(): yield from connection._reconnect(); return connection
create_after(pc) ==
    IF pc = "done" THEN "returned"
    ELSE IF pc = "raised" THEN "raised"
    ELSE "running"

CreateFollows(t) ==
    createPc' = IF t = 0 THEN create_after(loops'[0].pc) ELSE createPc

Remember(w, i) == IF Len(w) < MaxWaited THEN Append(w, i) ELSE w

---------------------------------------------------------------------------
NoReplay == [run |-> 0, fails |-> 0, last |-> "up", seen |-> {}]

\* The state in which create() reaches its yield from connection._reconnect().
InitConnection ==
    /\ auto_reconnect \in BOOLEAN
    /\ unixsocket \in {None, 1}
    /\ retry_interval = InitialInterval
    /\ transport = None
    /\ live = {}
    /\ established = 0
    /\ server \in {"up", "down", "fault"}
    /\ loops = [t \in Tasks |-> IF t = 0 THEN Fresh ELSE Idle]
    /\ createPc = "running"
    /\ losses = 0
    /\ ret = [kind |-> "nothing"]
    /\ protocol_calls = 0
    /\ transport_writes = 0

Init == InitConnection /\ replay = NoReplay

\* The coroutine is first run: it logs and calls create_connection or
\* create_unix_connection, and is suspended there.
StartLoop(t) ==
    /\ loops[t].pc = "start"
    /\ loops' = [loops EXCEPT ![t].pc = "connecting"]
    /\ CreateFollows(t)
    /\ UNCHANGED <<replay, auto_reconnect, unixsocket, retry_interval, transport, live,
                   established, server, losses, ret, protocol_calls, transport_writes>>

\* The attempt succeeds: the new transport is bound to the protocol, the
\* interval is reset and the loop returns.
AttemptSucceed(t) ==
    /\ loops[t].pc = "connecting"
    /\ server = "up"
    /\ established' = established + 1
    /\ live' = live \cup {established + 1}
    /\ transport' = connection_made(established + 1)
    /\ retry_interval' = reset_retry_interval
    /\ loops' = [loops EXCEPT ![t] = Over(@, "done")]
    /\ CreateFollows(t)
    /\ UNCHANGED <<replay, auto_reconnect, unixsocket, server, losses, ret, protocol_calls,
                   transport_writes>>

AttemptFail_gives_up(t) ==
    /\ loops[t].pc = "connecting"
    /\ server = "down"
    /\ loops' = [loops EXCEPT ![t] = Over(@, "raised")]
    /\ CreateFollows(t)
    /\ UNCHANGED <<replay, auto_reconnect, unixsocket, retry_interval, transport, live,
                   established, server, losses, ret, protocol_calls, transport_writes>>

AttemptFail_reads_first(t) ==
    /\ loops[t].pc = "connecting"
    /\ server = "down"
    /\ retry_interval' = increase_retry_interval(retry_interval)
    /\ loops' = [loops EXCEPT ![t].pc = "sleeping",
                              ![t].interval = get_retry_interval(retry_interval)]
    /\ CreateFollows(t)
    /\ UNCHANGED <<replay, auto_reconnect, unixsocket, transport, live, established, server,
                   losses, ret, protocol_calls, transport_writes>>

AttemptFail_unless_auto_reconnect(t) ==
    /\ loops[t].pc = "connecting"
    /\ server = "down"
    /\ IF auto_reconnect
       THEN /\ retry_interval' = increase_retry_interval(retry_interval)
            /\ loops' = [loops EXCEPT ![t].pc = "sleeping",
                                      ![t].interval = get_retry_interval(retry_interval')]
       ELSE /\ retry_interval' = retry_interval
            /\ loops' = [loops EXCEPT ![t] = Over(@, "raised")]
    /\ CreateFollows(t)
    /\ UNCHANGED <<replay, auto_reconnect, unixsocket, transport, live, established, server,
                   losses, ret, protocol_calls, transport_writes>>

\* The attempt fails with an OSError: the interval grows, is read, and the
\* loop sleeps for it.
AttemptFail(t) ==
    /\ loops[t].pc = "connecting"
    /\ server = "down"
    /\ retry_interval' = increase_retry_interval(retry_interval)
    /\ loops' = [loops EXCEPT ![t].pc = "sleeping",
                              ![t].interval = get_retry_interval(retry_interval')]
    /\ CreateFollows(t)
    /\ UNCHANGED <<replay, auto_reconnect, unixsocket, transport, live, established, server,
                   losses, ret, protocol_calls, transport_writes>>

AttemptRaise_caught(t) ==
    /\ loops[t].pc = "connecting"
    /\ server = "fault"
    /\ retry_interval' = increase_retry_interval(retry_interval)
    /\ loops' = [loops EXCEPT ![t].pc = "sleeping",
                              ![t].interval = get_retry_interval(retry_interval')]
    /\ CreateFollows(t)
    /\ UNCHANGED <<replay, auto_reconnect, unixsocket, transport, live, established, server,
                   losses, ret, protocol_calls, transport_writes>>

\* The attempt fails with an exception that is no OSError: it leaves the loop.
AttemptRaise(t) ==
    /\ loops[t].pc = "connecting"
    /\ server = "fault"
    /\ loops' = [loops EXCEPT ![t] = Over(@, "raised")]
    /\ CreateFollows(t)
    /\ UNCHANGED <<replay, auto_reconnect, unixsocket, retry_interval, transport, live,
                   established, server, losses, ret, protocol_calls, transport_writes>>

\* asyncio.sleep(interval) is over: the loop goes round to the next attempt.
WakeUp(t) ==
    /\ loops[t].pc = "sleeping"
    /\ loops' = [loops EXCEPT ![t].pc = "connecting",
                              ![t].waited = Remember(@, loops[t].interval)]
    /\ CreateFollows(t)
    /\ UNCHANGED <<replay, auto_reconnect, unixsocket, retry_interval, transport, live,
                   established, server, losses, ret, protocol_calls, transport_writes>>

\* An open transport is lost: the protocol unbinds it and notifies, once.
TransportLost(tr) ==
    /\ tr \in live
    /\ losses < MaxLosses
    /\ auto_reconnect => FreeSlots(loops) # {}
    /\ live' = live \ {tr}
    /\ transport' = None
    /\ losses' = losses + 1
    /\ loops' = connection_lost(loops)
    /\ UNCHANGED <<replay, auto_reconnect, unixsocket, retry_interval, established, server,
                   createPc, ret, protocol_calls, transport_writes>>

\* The caller asks the Connection for a name that normal lookup does not find
\* and, when given a method, calls it with its arguments.
Call(name, args) ==
    /\ createPc = "returned"
    /\ protocol_calls < MaxCalls
    /\ LET m == getattr(name)
       IN  IF m.kind = "AttributeError"
           THEN /\ ret' = m
                /\ UNCHANGED <<protocol_calls, transport_writes>>
           ELSE LET r == ProtocolCommand(m.name, args, transport)
                IN  /\ ret' = r
                    /\ protocol_calls' = protocol_calls + 1
                    /\ transport_writes' = transport_writes
                                             + (IF r.kind = "reply" THEN 1 ELSE 0)
    /\ UNCHANGED <<replay, auto_reconnect, unixsocket, retry_interval, transport, live,
                   established, server, loops, createPc, losses>>

ReadTransport_detaches ==
    /\ createPc = "returned"
    /\ ret' = [kind |-> "transport", value |-> transport]
    /\ transport' = None
    /\ UNCHANGED <<replay, auto_reconnect, unixsocket, retry_interval, live,
                   established, server, loops, createPc, losses, protocol_calls,
                   transport_writes>>

\* The caller reads connection.transport.
ReadTransport ==
    /\ createPc = "returned"
    /\ ret' = [kind |-> "transport", value |-> transport]
    /\ UNCHANGED <<replay, auto_reconnect, unixsocket, retry_interval, transport, live,
                   established, server, loops, createPc, losses, protocol_calls,
                   transport_writes>>

\* The environment: the endpoint becomes reachable, unreachable, or unusable.
ServerChange(s) ==
    /\ s # server
    /\ server' = s
    /\ UNCHANGED <<replay, auto_reconnect, unixsocket, retry_interval, transport, live,
                   established, loops, createPc, losses, ret, protocol_calls,
                   transport_writes>>

LoopStep(t) ==
    \/ StartLoop(t)
    \/ AttemptSucceed(t)
    \/ AttemptFail(t)
    \/ AttemptRaise(t)
    \/ WakeUp(t)

Next ==
    \/ \E t \in Tasks : StartLoop(t)
    \/ \E t \in Tasks : AttemptSucceed(t)
    \/ \E t \in Tasks : AttemptFail(t)
    \/ \E t \in Tasks : AttemptRaise(t)
    \/ \E t \in Tasks : WakeUp(t)
    \/ \E tr \in 1 .. (2 * MaxLosses + 1) : TransportLost(tr)
    \/ \E name \in Names, args \in Args : Call(name, args)
    \/ ReadTransport
    \/ \E s \in {"up", "down", "fault"} : ServerChange(s)

Spec == Init /\ [][Next]_vars

\* The event loop runs every task that can run: an attempt completes, a sleep
\* ends, a scheduled task is started.
FairSpec == Spec /\ \A t \in Tasks : WF_vars(LoopStep(t))

---------------------------------------------------------------------------
(* create() run to its end twice on the same endpoint behaviour, with       *)
(* auto_reconnect one way and then the other: the first replay.fails        *)
(* attempts meet a connection error, the next one meets replay.last.        *)

\* What there is to see of the Connection and of create, but for the flag.
Observed ==
    [loops |-> loops, retry_interval |-> retry_interval, transport |-> transport,
     live |-> live, established |-> established, createPc |-> createPc,
     unixsocket |-> unixsocket, losses |-> losses]

\* The attempts of create's loop that have failed so far.
FailedSoFar == Len(loops[0].waited) + (IF loops[0].pc = "sleeping" THEN 1 ELSE 0)

\* What the next attempt meets.
Scripted == IF FailedSoFar < replay.fails THEN "down" ELSE replay.last

Recorded == replay.run = 2 \/ Observed \in replay.seen

ReplayInit ==
    /\ InitConnection
    /\ \E n \in 0 .. MaxWaited, s \in {"up", "fault"} :
            replay = [run |-> 1, fails |-> n, last |-> s, seen |-> {}]

\* The first run's state is noted.
Record ==
    /\ replay.run = 1
    /\ Observed \notin replay.seen
    /\ replay' = [replay EXCEPT !.seen = @ \cup {Observed}]
    /\ UNCHANGED <<auto_reconnect, unixsocket, retry_interval, transport, live,
                   established, server, loops, createPc, losses, ret, protocol_calls,
                   transport_writes>>

\* The endpoint becomes what the next attempt is to meet.
Follow ==
    /\ createPc = "running"
    /\ Recorded
    /\ ServerChange(Scripted)

\* create's loop takes its next step.
CreateStep ==
    /\ createPc = "running"
    /\ Recorded
    /\ server = Scripted
    /\ LoopStep(0)

\* create is called again, with the other auto_reconnect and the same endpoint.
Rerun ==
    /\ replay.run = 1
    /\ createPc # "running"
    /\ Recorded
    /\ replay' = [replay EXCEPT !.run = 2]
    /\ auto_reconnect' = ~auto_reconnect
    /\ retry_interval' = InitialInterval
    /\ transport' = None
    /\ live' = {}
    /\ established' = 0
    /\ loops' = [t \in Tasks |-> IF t = 0 THEN Fresh ELSE Idle]
    /\ createPc' = "running"
    /\ UNCHANGED <<unixsocket, server, losses, ret, protocol_calls, transport_writes>>

ReplayNext ==
    \/ Record
    \/ Follow
    \/ CreateStep
    \/ Rerun

ReplaySpec == ReplayInit /\ [][ReplayNext]_vars

---------------------------------------------------------------------------
(* What a step did, read off the loop's position before and after it. *)

Succeeded(t) == loops[t].pc = "connecting" /\ loops'[t].pc = "done"

Failed(t) == loops[t].pc = "connecting" /\ loops'[t].pc = "sleeping"

\* The intervals the code waits after a first and a second failed attempt.
FirstWait == (3 * InitialInterval) \div 2

SecondWait == (9 * InitialInterval) \div 4

\* No loop has attempted anything since the last success.
Quiet == \A u \in Tasks : loops[u].pc \in {"idle", "done", "start"}

---------------------------------------------------------------------------
\* C1: in every reachable state the retry interval is at least .5 s and at
\* most 60 s.
C1_RetryIntervalInRange ==
    /\ retry_interval >= InitialInterval
    /\ retry_interval <= MaxInterval

\* The interval is at the ceiling after losses, reconnects and command calls.
C1_Witness ==
    /\ retry_interval = MaxInterval
    /\ losses >= 1
    /\ protocol_calls >= 1

\* C2 (as stated): a loop whose first two attempts failed and whose third
\* succeeded waited .5 s and then .75 s, and left the interval at .5 s.
C2_Original ==
    \A t \in Tasks :
        (loops[t].pc = "done" /\ Len(loops[t].waited) = 2)
            => /\ loops[t].waited = <<InitialInterval, FirstWait>>
               /\ Quiet => retry_interval = InitialInterval

\* C2 (amended): a loop whose first two attempts failed and whose third
\* succeeded waited .75 s and then 1.125 s (the interval is grown before it is
\* read), and left the interval at .5 s for the next loop.
C2_TwoFailuresThenSuccess ==
    \A t \in Tasks :
        (loops[t].pc = "done" /\ Len(loops[t].waited) = 2)
            => /\ loops[t].waited = <<FirstWait, SecondWait>>
               /\ Quiet => retry_interval = InitialInterval

\* A loop has succeeded on its third attempt, and a loop started by a later
\* loss is about to run with the interval it left.
C2_Witness ==
    /\ loops[0].pc = "done"
    /\ Len(loops[0].waited) = 2
    /\ loops[1].pc = "start"
    /\ retry_interval = InitialInterval

\* At most one transport is open on the protocol handle, and a bound
\* transport is that one.
AtMostOneBound ==
    /\ Cardinality(live) <= 1
    /\ transport # None => live = {transport}

\* C3: at any instant at most one transport is bound to the protocol handle,
\* and when a reconnect loop succeeds exactly one is bound: the one just
\* established.
C3_ExactlyOneBinding ==
    /\ []AtMostOneBound
    /\ [][\A t \in Tasks :
            Succeeded(t) => /\ established' = established + 1
                            /\ transport' = established'
                            /\ live' = {established'}]_vars

\* The second reconnect after a loss has bound the third transport.
C3_Witness ==
    /\ established = 3
    /\ transport = 3
    /\ live = {3}
    /\ losses = 2

\* The Connection was handed to its caller and has no transport.
NeedsRecovery ==
    /\ auto_reconnect
    /\ createPc = "returned"
    /\ transport = None

C5_NoRecoveryWhenDisabled ==
    (~auto_reconnect /\ losses >= 1)
        => /\ transport = None
           /\ live = {}
           /\ established = 1
           /\ \A t \in Tasks : ~Active(t)

\* Long after the loss, with the endpoint reachable, a command was refused.
C5_Witness ==
    /\ ~auto_reconnect
    /\ losses >= 1
    /\ server = "up"
    /\ ret.kind = "NotConnectedError"

\* C6: create returns only by a successful attempt of its own loop: at its
\* return a transport is bound and the interval is .5 s.
C6_CreateReturnsConnected ==
    /\ [](createPc = "returned" => (established >= 1 /\ loops[0].pc = "done"))
    /\ [][(createPc # "returned" /\ createPc' = "returned")
            => /\ Succeeded(0)
               /\ transport' # None
               /\ transport' \in live'
               /\ retry_interval' = InitialInterval]_vars

\* create has returned after failed attempts, and nothing has happened since.
C6_Witness ==
    /\ createPc = "returned"
    /\ Len(loops[0].waited) = MaxWaited
    /\ transport = 1
    /\ losses = 0

\* C7: a successful attempt sets the interval to exactly .5 s, whatever it
\* was.
C7_BackoffReset ==
    [][\A t \in Tasks : Succeeded(t) => retry_interval' = InitialInterval]_vars

\* A background loop has succeeded after several failed attempts.
C7_Witness ==
    \E t \in Background :
        /\ loops[t].pc = "done"
        /\ Len(loops[t].waited) = MaxWaited
        /\ retry_interval = InitialInterval

\* C8: a failed attempt replaces the interval i by min(60, 1.5 i), exactly; the
\* interval does not decrease, does not exceed 60 s, and stays at 60 s.
C8_BackoffMonotone ==
    [][\A t \in Tasks :
        Failed(t) => /\ (3 * retry_interval) % 2 = 0
                     /\ retry_interval' = Min(60 * Scale, (3 * retry_interval) \div 2)
                     /\ retry_interval' >= retry_interval
                     /\ retry_interval' <= 60 * Scale
                     /\ retry_interval = 60 * Scale => retry_interval' = 60 * Scale
                     /\ loops'[t].interval = retry_interval']_vars

\* A loop sleeps for the ceiling.
C8_Witness ==
    \E t \in Tasks :
        /\ loops[t].pc = "sleeping"
        /\ loops[t].interval = MaxInterval
        /\ retry_interval = MaxInterval

\* C9: a name that is no command raises AttributeError and reaches neither the
\* protocol handle nor the transport, in every connection state.
C9_UnknownNameRejected ==
    [][\A name \in Names \ all_commands, args \in Args :
        Call(name, args) => /\ ret' = AttributeError
                            /\ protocol_calls' = protocol_calls
                            /\ transport_writes' = transport_writes]_vars

\* An unknown name was rejected while no transport was bound.
C9_Witness ==
    /\ ret = AttributeError
    /\ transport = None
    /\ losses >= 1

\* C10: a command name resolves to the protocol handle's operation of that
\* name, and calling it gives what the protocol handle gives for the same
\* arguments at that time.
C10_ForwardingCorrect ==
    [][\A name \in all_commands, args \in Args :
        Call(name, args) => /\ getattr(name) = BoundMethod(name)
                            /\ ret' = ProtocolCommand(name, args, transport)
                            /\ protocol_calls' = protocol_calls + 1]_vars

\* A command went through the transport bound by a reconnect.
C10_Witness ==
    /\ ret.kind = "reply"
    /\ ret.name = "set"
    /\ ret.args = <<"key", "value">>
    /\ ret.via = 2

\* C11 (as stated): no command call is forwarded to the protocol handle while
\* no transport is bound.
C11_Original ==
    [][\A name \in all_commands, args \in Args :
        (Call(name, args) /\ transport = None)
            => protocol_calls' = protocol_calls]_vars

\* C11 (amended): a command call is forwarded to the protocol handle also
\* while no transport is bound; the handle refuses it and nothing is written
\* to a transport.
C11_ForwardedWhileDisconnected ==
    [][\A name \in all_commands, args \in Args :
        (Call(name, args) /\ transport = None)
            => /\ protocol_calls' = protocol_calls + 1
               /\ ret' = ProtocolCommand(name, args, None)
               /\ ret'.kind = "NotConnectedError"
               /\ transport_writes' = transport_writes]_vars

\* A command was called between a loss and the next successful reconnect.
C11_Witness ==
    /\ ret.kind = "NotConnectedError"
    /\ protocol_calls = 1
    /\ transport = None
    /\ \E t \in Background : loops[t].pc = "sleeping"

\* A step of loop t whose attempt met a connection error.
MetOSError(t) ==
    /\ loops[t].pc = "connecting"
    /\ server = "down"
    /\ loops'[t] # loops[t]

\* A step that ends loop t.
Ended(t) == loops[t].pc \notin Inactive /\ loops'[t].pc \in Inactive

\* A step in which an exception leaves loop t.
Raised(t) == loops[t].pc = "connecting" /\ loops'[t].pc = "raised"

\* Once the endpoint is connectable for good, every running loop ends.
LoopsTerminate ==
    <>[](server = "up") => \A t \in Tasks : [](Active(t) => <>(~Active(t)))

\* C12 (as stated): an OSError of an attempt is caught: the loop grows the
\* back-off and goes on, nothing reaches its driver; a loop ends only by a
\* successful attempt, and it ends once the endpoint is connectable for good.
C12_Original ==
    /\ [][\A t \in Tasks :
            /\ MetOSError(t) => /\ loops'[t].pc = "sleeping"
                                /\ retry_interval' = Min(60 * Scale, (3 * retry_interval) \div 2)
                                /\ createPc' = createPc
            /\ Ended(t) => Succeeded(t)]_vars
    /\ LoopsTerminate

\* C12 (amended): ... a loop ends only by a successful attempt or by a failure
\* that is no OSError, and it ends once the endpoint is connectable for good.
C12_TransientFailureRetried ==
    /\ [][\A t \in Tasks :
            /\ MetOSError(t) => /\ loops'[t].pc = "sleeping"
                                /\ retry_interval' = Min(60 * Scale, (3 * retry_interval) \div 2)
                                /\ createPc' = createPc
            /\ Ended(t) => (Succeeded(t) \/ (Raised(t) /\ server = "fault"))]_vars
    /\ LoopsTerminate

\* A background loop has gone through enough connection errors to reach the
\* ceiling, and attempts again.
C12_Witness ==
    \E t \in Background :
        /\ loops[t].pc = "connecting"
        /\ loops[t].interval = MaxInterval
        /\ Len(loops[t].waited) = MaxWaited
        /\ createPc = "returned"

\* A step of loop t whose attempt met a failure that is no connection error.
MetOtherFailure(t) ==
    /\ loops[t].pc = "connecting"
    /\ server = "fault"
    /\ loops'[t] # loops[t]

\* C13: a failure of an attempt that is no OSError ends the loop and reaches
\* its driver (create raises); the loop neither grows the back-off nor sleeps
\* nor attempts again, and the retry interval is left as it was.
C13_OtherFailurePropagates ==
    [][\A t \in Tasks :
        /\ MetOtherFailure(t) => /\ loops'[t].pc = "raised"
                                 /\ loops'[t].waited = loops[t].waited
                                 /\ retry_interval' = retry_interval
                                 /\ transport' = transport
                                 /\ established' = established
                                 /\ t = 0 => createPc' = "raised"
        /\ loops[t].pc = "raised" => loops'[t] = loops[t]
        /\ createPc = "raised" => createPc' = "raised"]_vars

\* create has raised after two connection errors; the interval is still the
\* one the second error left.
C13_Witness ==
    /\ createPc = "raised"
    /\ loops[0].pc = "raised"
    /\ Len(loops[0].waited) = 2
    /\ retry_interval = SecondWait
    /\ server = "up"

LossNotified == losses' = losses + 1

\* C15: the loss notification only schedules a reconnect loop as a task of its
\* own, which has not attempted or slept when the notification returns; the
\* caller of create, instead, is held until create's loop is over.
C15_FireAndForget ==
    /\ [][(LossNotified /\ auto_reconnect)
            => /\ \E t \in Background :
                    /\ loops[t].pc \in Inactive
                    /\ loops'[t] = Fresh
                    /\ \A u \in Tasks \ {t} : loops'[u] = loops[u]
               /\ established' = established
               /\ retry_interval' = retry_interval
               /\ createPc' = createPc]_vars
    /\ [](Active(0) => createPc = "running")

\* After a loss the caller's next command was answered before the scheduled
\* loop had run at all.
C15_Witness ==
    /\ auto_reconnect
    /\ losses = 1
    /\ loops[1].pc = "start"
    /\ ret.kind = "NotConnectedError"

\* The loops a step schedules.
Started == {t \in Tasks : loops[t].pc # "start" /\ loops'[t].pc = "start"}

\* C16: once create has returned, a reconnect loop is started only by a loss
\* notification with auto_reconnect enabled, and by each exactly one: command
\* calls, transport reads and attempts start none.
C16_LoopsStartOnLossOnly ==
    [][createPc = "returned"
        => /\ Cardinality(Started) = IF LossNotified /\ auto_reconnect THEN 1 ELSE 0
           /\ \A name \in Names, args \in Args : Call(name, args) => loops' = loops
           /\ ReadTransport => loops' = loops
           /\ \A t \in Tasks :
                (Succeeded(t) \/ Failed(t) \/ Raised(t))
                    => \A u \in Tasks \ {t} : loops'[u] = loops[u]]_vars

\* The second loss has scheduled the second background loop.
C16_Witness ==
    /\ auto_reconnect
    /\ losses = 2
    /\ established = 2
    /\ loops[1].pc = "start"
    /\ protocol_calls = 1

\* Command forwarding and the transport accessor change nothing of the
\* Connection: not the binding, the retry interval or the endpoint.
CallerStepsFrame ==
    /\ \A name \in Names, args \in Args :
            Call(name, args) => UNCHANGED <<transport, live, retry_interval, unixsocket, loops>>
    /\ ReadTransport => /\ UNCHANGED <<transport, live, retry_interval, unixsocket, loops>>
                        /\ ret'.value = transport

C18_AtMostOneLoop ==
    /\ Cardinality({t \in Tasks : Active(t)}) <= 1
    /\ (\E t \in Tasks : Active(t)) => (transport = None /\ live = {})
    /\ \A t \in Tasks : loops[t].pc = "sleeping" => loops[t].interval = retry_interval

\* The loop started by the second loss is retrying, alone.
C18_Witness ==
    /\ losses = 2
    /\ loops[0].pc = "done"
    /\ loops[1].pc = "connecting"
    /\ loops[1].waited # <<>>
    /\ loops[2].pc = "idle"

\* C19: once an attempt of a background loop has failed with something that is
\* no OSError, no loop runs and no transport is bound, in every later state,
\* although auto_reconnect is enabled.
C19_DeadAfterBackgroundFailure ==
    (\E t \in Background : loops[t].pc = "raised")
        => /\ auto_reconnect
           /\ transport = None
           /\ live = {}
           /\ \A u \in Tasks : ~Active(u)

\* Long after a background loop raised, with the endpoint connectable, a
\* command was refused.
C19_Witness ==
    /\ loops[1].pc = "raised"
    /\ loops[1].waited # <<>>
    /\ server = "up"
    /\ ret.kind = "NotConnectedError"

\* C20: create's own reconnect loop does not depend on auto_reconnect: run
\* with the flag the other way on the same endpoint behaviour, it goes through
\* the same states (the same attempts, back-off sleeps and intervals), and
\* create returns only by the attempt that succeeds, after every failed one.
C20_CreateIgnoresAutoReconnect ==
    /\ replay.run = 2 => Observed \in replay.seen
    /\ (replay.run # 0 /\ createPc = "returned")
            => /\ replay.last = "up"
               /\ transport # None
               /\ Len(loops[0].waited) = replay.fails
    /\ (replay.run # 0 /\ createPc = "raised") => replay.last = "fault"

\* create, called again without auto_reconnect, has returned after the same
\* two failed attempts.
C20_Witness ==
    /\ replay.run = 2
    /\ ~auto_reconnect
    /\ createPc = "returned"
    /\ loops[0].waited = <<FirstWait, SecondWait>>

====
